---- MODULE Spec2Model ----
(***************************************************************************)
(* Donation thermometer server: the progress calculation and the layout    *)
(* of generate_thermometer_svg, the scale handling of the PNG endpoints    *)
(* and svg_to_png, and the configuration store with the handlers that      *)
(* read and write it.                                                       *)
(*                                                                         *)
(* Numbers.  An f64/f32 is modelled as an extended rational: a record      *)
(* [k, n, d] with k one of "fin" (the value n/d in lowest terms, d > 0),   *)
(* "nan", "pinf", "ninf".  Finite arithmetic is exact: the binary rounding *)
(* error of a single operation (at most one part in 2^53) and the sign of  *)
(* zero are not modelled.  NaN and the infinities follow IEEE 754 and the  *)
(* documented behaviour of f64::min, f64::max and `as u32`.                *)
(***************************************************************************)
EXTENDS Integers, Sequences, FiniteSets, TLC

VARIABLES
    config,      \* SpecLayout: the ThermometerConfig handed to generate_thermometer_svg
    width,       \* SpecLayout: the width handed to generate_thermometer_svg
    geometry,    \* SpecLayout: the local values computed by generate_thermometer_svg
    template,    \* SpecLayout: the ThermometerTemplate built by generate_thermometer_svg
    svg,         \* SpecLayout: the result of template.render() and the document returned
    svg_response, \* SpecLayout: the response of the SVG endpoint
    query,          \* SpecPng: the scale of the request's query string
    svg_tree,       \* SpecPng: what usvg makes of the generated document
    png_encodes,    \* SpecPng: whether Pixmap::encode_png succeeds
    raster_call,    \* SpecPng: the handler's call of svg_to_png: arguments, stages run, error
    image_response, \* SpecPng: the response of the PNG endpoint
    backend,     \* Spec: the storage create_storage chose: "memory" or "firestore"
    edit_key,    \* Spec: AppState::edit_key
    stored,      \* Spec: the stored configuration (the RwLock's value, the document)
    clock,       \* Spec: what chrono::Utc::now() returns
    handlers,    \* Spec: each client's handler between two storage operations
    response,    \* Spec: the response sent by the last step, if it sent one
    rwlock,      \* SpecMemory: InMemoryStorage::config, the RwLock: value and guards
    tasks,       \* SpecMemory: each task's call of load_config or save_config
    completed    \* SpecMemory: the configurations of the completed saves, in order

layout_vars == <<config, width, geometry, template, svg, svg_response>>
png_vars == <<query, svg_tree, png_encodes, raster_call, image_response>>
server_vars == <<backend, edit_key, stored, clock, handlers, response>>
memory_vars == <<rwlock, tasks, completed>>

----------------------------------------------------------------------------
(* Extended rationals *)

Abs(i) == IF i < 0 THEN -i ELSE i

RECURSIVE GCD(_, _)
GCD(a, b) == IF b = 0 THEN a ELSE GCD(b, a % b)

\* n/d in lowest terms with a positive denominator (d # 0)
Norm(n, d) ==
    LET s == IF d < 0 THEN -1 ELSE 1
        g == GCD(Abs(n), Abs(d))
    IN  [k |-> "fin", n |-> (s * n) \div g, d |-> (s * d) \div g]

F(i)      == [k |-> "fin", n |-> i, d |-> 1]
Dec(n, d) == Norm(n, d)
NaN       == [k |-> "nan", n |-> 0, d |-> 1]
PosInf    == [k |-> "pinf", n |-> 0, d |-> 1]
NegInf    == [k |-> "ninf", n |-> 0, d |-> 1]

IsFin(a) == a.k = "fin"
IsNaN(a) == a.k = "nan"

\* -1, 0 or 1 (not for NaN)
Sign(a) ==
    CASE a.k = "pinf" -> 1
      [] a.k = "ninf" -> -1
      [] OTHER -> IF a.n > 0 THEN 1 ELSE IF a.n < 0 THEN -1 ELSE 0

Inf(s) == IF s < 0 THEN NegInf ELSE PosInf

FNeg(a) ==
    CASE a.k = "fin" -> [a EXCEPT !.n = -a.n]
      [] a.k = "pinf" -> NegInf
      [] a.k = "ninf" -> PosInf
      [] OTHER -> NaN

FAdd(a, b) ==
    IF IsNaN(a) \/ IsNaN(b) THEN NaN
    ELSE IF IsFin(a) /\ IsFin(b) THEN Norm(a.n * b.d + b.n * a.d, a.d * b.d)
    ELSE IF IsFin(a) THEN b
    ELSE IF IsFin(b) THEN a
    ELSE IF a.k = b.k THEN a ELSE NaN

FSub(a, b) == FAdd(a, FNeg(b))

FMul(a, b) ==
    IF IsNaN(a) \/ IsNaN(b) THEN NaN
    ELSE IF IsFin(a) /\ IsFin(b) THEN Norm(a.n * b.n, a.d * b.d)
    ELSE IF Sign(a) = 0 \/ Sign(b) = 0 THEN NaN
    ELSE Inf(Sign(a) * Sign(b))

FDiv(a, b) ==
    IF IsNaN(a) \/ IsNaN(b) THEN NaN
    ELSE IF IsFin(a) /\ IsFin(b)
         THEN IF b.n = 0
              THEN IF a.n = 0 THEN NaN ELSE Inf(Sign(a))
              ELSE Norm(a.n * b.d, a.d * b.n)
    ELSE IF ~IsFin(a) /\ ~IsFin(b) THEN NaN
    ELSE IF IsFin(a) THEN F(0)
    ELSE Inf(Sign(a) * (IF Sign(b) < 0 THEN -1 ELSE 1))

\* a < b; false when either is NaN
FLt(a, b) ==
    /\ ~IsNaN(a)
    /\ ~IsNaN(b)
    /\ IF IsFin(a) /\ IsFin(b) THEN a.n * b.d < b.n * a.d
       ELSE IF a.k = b.k THEN FALSE
       ELSE a.k = "ninf" \/ b.k = "pinf"

FLe(a, b) == ~IsNaN(a) /\ ~IsNaN(b) /\ ~FLt(b, a)
FGt(a, b) == FLt(b, a)

\* f64::min / f64::max: a NaN operand is ignored
FMin(a, b) == IF IsNaN(a) THEN b ELSE IF IsNaN(b) THEN a ELSE IF FLt(b, a) THEN b ELSE a
FMax(a, b) == IF IsNaN(a) THEN b ELSE IF IsNaN(b) THEN a ELSE IF FLt(a, b) THEN b ELSE a

\* `x as u32` for x below 2^32: truncation toward zero, negatives and NaN
\* to 0.  (The saturation at u32::MAX is out of the reach of the widths
\* and scales used here; TLC's integers are 32-bit.)
AsU32(a) ==
    CASE a.k = "nan" -> 0
      [] a.k = "ninf" -> 0
      [] a.k = "fin" -> IF a.n < 0 THEN 0 ELSE a.n \div a.d

\* format!("{:.p}", a) with 10^p = scale: the decimal string, as the record
\* [k, n, d |-> scale] of its digits n (round half to even); the strings
\* "NaN", "inf", "-inf" are the records of the other kinds.
Fmt(a, scale) ==
    IF ~IsFin(a) THEN [a EXCEPT !.d = scale]
    ELSE LET m == a.n * scale
             q == m \div a.d
             r == m - q * a.d
             up == \/ 2 * r > a.d
                   \/ 2 * r = a.d /\ q % 2 = 1
         IN  [k |-> "fin", n |-> IF up THEN q + 1 ELSE q, d |-> scale]

Fmt2(a) == Fmt(a, 100)
Fmt0(a) == Fmt(a, 1)

----------------------------------------------------------------------------
(* thermometer.rs: generate_thermometer_svg *)

\* A Team; only total_raised is read by the rendering
Team(name, amount) == [name |-> name, total_raised |-> amount]

RECURSIVE SumFrom(_, _, _)
SumFrom(acc, teams, i) ==
    IF i > Len(teams) THEN acc
    ELSE SumFrom(FAdd(acc, teams[i].total_raised), teams, i + 1)

\* config.teams.iter().map(|t| t.total_raised).sum()
total_raised(cfg) == SumFrom(F(0), cfg.teams, 1)

\* mutant: the ratio is not capped at 100
progress_percent_uncapped(cfg) ==
    IF FGt(cfg.goal, F(0))
    THEN FMul(FDiv(total_raised(cfg), cfg.goal), F(100))
    ELSE F(0)

\* mutant: the goal is not tested before dividing by it
progress_percent_unguarded(cfg) ==
    FMin(FMul(FDiv(total_raised(cfg), cfg.goal), F(100)), F(100))

progress_percent(cfg) ==
    IF FGt(cfg.goal, F(0))
    THEN FMin(FMul(FDiv(total_raised(cfg), cfg.goal), F(100)), F(100))
    ELSE F(0)

\* Each local of generate_thermometer_svg, as a function of the locals (and
\* parameters) its initialiser reads.
\* mutant: the canvas height is rounded to the nearest integer
height_rounded(w)      == AsU32(FAdd(FMul(F(w), Dec(12, 10)), Dec(1, 2)))
\* mutant: the top of the bounding box is taken from the width
thermometer_y_of_width(h) == FMul(F(h), Dec(1, 10))

height(w)              == AsU32(FMul(F(w), Dec(12, 10)))
thermometer_width(w)   == FMul(F(w), Dec(35, 100))
thermometer_height(h)  == FMul(F(h), Dec(6, 10))
thermometer_x(w)       == FMul(F(w), Dec(1, 10))
thermometer_y(h)       == FMul(F(h), Dec(15, 100))

\* mutant: the radius of the 800-pixel layout, in pixels
bulb_radius_fixed(tw)  == F(112)
bulb_radius(tw)        == FMul(tw, Dec(4, 10))
tube_width(tw)         == FMul(tw, Dec(35, 100))
tube_height(th, br)    == FSub(th, br)
tube_x(tx, tw, tbw)    == FAdd(tx, FDiv(FSub(tw, tbw), F(2)))
tube_y(ty)             == ty
bulb_center_x(tx, tw)  == FAdd(tx, FDiv(tw, F(2)))
bulb_center_y(tby, tbh, br) == FAdd(FAdd(tby, tbh), br)

\* mutant: the fill height is not clamped at 0
fill_height_unclamped(tbh, pp) == FDiv(FMul(tbh, pp), F(100))
fill_height(tbh, pp)   == FMax(FDiv(FMul(tbh, pp), F(100)), F(0))
fill_y(tby, tbh, fh)   == FSub(FAdd(tby, tbh), fh)

text_x(w)     == FMul(F(w), Dec(55, 100))
title_y(h)    == FMul(F(h), Dec(1, 10))
achieved_y(h) == FMul(F(h), Dec(35, 100))
goal_y(h)     == FMul(F(h), Dec(55, 100))
percent_y(h)  == FMul(F(h), Dec(75, 100))

\* mutant: the levels listed bottom-up
percentages_ascending == <<0, 20, 40, 60, 80, 100>>
percentages       == <<100, 80, 60, 40, 20, 0>>
marker_length(tw) == FMul(tw, Dec(25, 100))
font_size(w)      == FMul(F(w), Dec(2, 100))

\* the locals of the closure that builds the marker of level p
marker_y(p, tby, tbh)  == FAdd(tby, FMul(tbh, FSub(F(1), FDiv(F(p), F(100)))))
marker_x(tbx, ml)      == FSub(FSub(tbx, ml), F(5))
marker_text_x(mx)      == FSub(mx, F(5))

\* the local values of generate_thermometer_svg(cfg, w), before formatting
Locals(cfg, w) ==
    LET h   == height(w)
        tw  == thermometer_width(w)
        th  == thermometer_height(h)
        tx  == thermometer_x(w)
        ty  == thermometer_y(h)
        br  == bulb_radius(tw)
        tbw == tube_width(tw)
        tbh == tube_height(th, br)
        tbx == tube_x(tx, tw, tbw)
        tby == tube_y(ty)
        pp  == progress_percent(cfg)
        fh  == fill_height(tbh, pp)
        ml  == marker_length(tw)
    IN  [ width            |-> w,
          goal             |-> cfg.goal,
          total_raised     |-> total_raised(cfg),
          progress_percent |-> pp,
          height           |-> h,
          thermometer_width  |-> tw,
          thermometer_height |-> th,
          thermometer_x    |-> tx,
          thermometer_y    |-> ty,
          bulb_radius      |-> br,
          tube_width       |-> tbw,
          tube_height      |-> tbh,
          tube_x           |-> tbx,
          tube_y           |-> tby,
          bulb_center_x    |-> bulb_center_x(tx, tw),
          bulb_center_y    |-> bulb_center_y(tby, tbh, br),
          fill_height      |-> fh,
          fill_y           |-> fill_y(tby, tbh, fh),
          text_x           |-> text_x(w),
          title_y          |-> title_y(h),
          achieved_y       |-> achieved_y(h),
          goal_y           |-> goal_y(h),
          percent_y        |-> percent_y(h),
          marker_length    |-> ml,
          font_size        |-> font_size(w),
          marker_x         |-> marker_x(tbx, ml),
          marker_y         |-> [i \in 1..Len(percentages) |->
                                   marker_y(percentages[i], tby, tbh)],
          percentages      |-> percentages ]

\* the PercentageMarker built for the i-th level
PercentageMarker(l, i) ==
    [ line_x1    |-> Fmt2(l.marker_x),
      y          |-> Fmt2(l.marker_y[i]),
      line_x2    |-> Fmt2(FSub(l.tube_x, F(5))),
      text_x     |-> Fmt2(marker_text_x(l.marker_x)),
      text_y     |-> Fmt2(FAdd(l.marker_y[i], FMul(l.font_size, Dec(35, 100)))),
      font_size  |-> Fmt2(l.font_size),
      percentage |-> l.percentages[i] ]

\* the ThermometerTemplate built from the locals l
ThermometerTemplate(l) ==
    [ width            |-> l.width,
      height           |-> l.height,
      title_x          |-> Fmt2(FDiv(F(l.width), F(2))),
      title_y          |-> Fmt2(l.title_y),
      title_font_size  |-> Fmt2(FMul(F(l.width), Dec(35, 1000))),
      tube_x           |-> Fmt2(l.tube_x),
      tube_y           |-> Fmt2(l.tube_y),
      tube_width       |-> Fmt2(l.tube_width),
      tube_height      |-> Fmt2(l.tube_height),
      fill_x           |-> Fmt2(FAdd(l.tube_x, Dec(25, 10))),
      fill_y           |-> Fmt2(l.fill_y),
      fill_width       |-> Fmt2(FSub(l.tube_width, F(5))),
      fill_height      |-> Fmt2(l.fill_height),
      bulb_center_x    |-> Fmt2(l.bulb_center_x),
      bulb_center_y    |-> Fmt2(l.bulb_center_y),
      bulb_radius      |-> Fmt2(l.bulb_radius),
      bulb_fill_radius |-> Fmt2(FSub(l.bulb_radius, F(3))),
      percentage_markers |->
          [i \in 1..Len(l.percentages) |-> PercentageMarker(l, i)],
      text_x           |-> Fmt2(l.text_x),
      achieved_y       |-> Fmt2(l.achieved_y),
      achieved_amount  |-> Fmt2(l.total_raised),
      achieved_label_y |-> Fmt2(FAdd(l.achieved_y, FMul(F(l.width), Dec(3, 100)))),
      goal_y           |-> Fmt2(l.goal_y),
      goal_amount      |-> Fmt2(l.goal),
      goal_label_y     |-> Fmt2(FAdd(l.goal_y, FMul(F(l.width), Dec(3, 100)))),
      percent_y        |-> Fmt2(l.percent_y),
      progress_percent |-> Fmt0(l.progress_percent),
      percent_label_y  |-> Fmt2(FAdd(l.percent_y, FMul(F(l.width), Dec(25, 1000)))),
      amount_font_size |-> Fmt2(FMul(F(l.width), Dec(6, 100))),
      label_font_size  |-> Fmt2(FMul(F(l.width), Dec(25, 1000))),
      percent_font_size |-> Fmt2(FMul(F(l.width), Dec(9, 100))),
      percent_label_font_size |-> Fmt2(FMul(F(l.width), Dec(22, 1000))) ]

NoGeometry == [none |-> TRUE]
NoTemplate == [none |-> TRUE]
NoSvg      == [none |-> TRUE]
NoSvgResponse == [none |-> TRUE]

\* the document of unwrap_or_else's closure
ErrorPlaceholder == [svg |-> "<svg><text>Error rendering thermometer</text></svg>"]

\* the document askama renders from the template t
RenderedDocument(t) == [svg |-> "thermometer", template |-> t]

\* mutant: a failed rendering is handed to the caller as the error
render_or_error(t, renders) ==
    [ render_ok |-> renders,
      document  |-> IF renders THEN RenderedDocument(t) ELSE [error |-> "askama::Error"] ]

\* template.render().unwrap_or_else(..), for a rendering that succeeds or
\* not: the result of render() and the document returned
render_or_placeholder(t, renders) ==
    [ render_ok |-> renders,
      document  |-> IF renders THEN RenderedDocument(t) ELSE ErrorPlaceholder ]

\* The inputs of the layout runs
MaxTeams == 2
MaxWidth == 6
BaseWidth == 800
Amounts == {F(-20), F(5), F(25), NaN, PosInf, NegInf}
Goals   == {F(-10), F(0), F(10), NaN, PosInf}
Widths  == (1..MaxWidth) \cup {BaseWidth}

TeamLists ==
    UNION {[1..n -> {Team("team", a) : a \in Amounts}] : n \in 0..MaxTeams}

\* the variables of the other specifications, at rest
LayoutIdle ==
    /\ config = [goal |-> F(0), teams |-> <<>>]
    /\ width = BaseWidth
    /\ geometry = NoGeometry
    /\ template = NoTemplate
    /\ svg = NoSvg
    /\ svg_response = NoSvgResponse

ServerIdle ==
    /\ backend = "memory"
    /\ edit_key = <<>>
    /\ stored = [none |-> TRUE]
    /\ clock = 0
    /\ handlers = <<>>
    /\ response = [none |-> TRUE]

PngIdle ==
    /\ query = [k |-> "absent", n |-> 0, d |-> 1]
    /\ svg_tree = [parses |-> FALSE]
    /\ png_encodes = TRUE
    /\ raster_call = [none |-> TRUE]
    /\ image_response = [none |-> TRUE]

MemoryIdle ==
    /\ rwlock = [none |-> TRUE]
    /\ tasks = <<>>
    /\ completed = <<>>

LayoutInit ==
    /\ config \in [goal : Goals, teams : TeamLists]
    /\ width \in Widths
    /\ geometry = NoGeometry
    /\ template = NoTemplate
    /\ svg = NoSvg
    /\ svg_response = NoSvgResponse
    /\ PngIdle
    /\ ServerIdle
    /\ MemoryIdle

\* the body of generate_thermometer_svg(&config, w): the locals, the
\* template and the document returned
Generate(w) ==
    LET l == Locals(config, w)
    IN  /\ geometry' = l
        /\ template' = ThermometerTemplate(l)
        /\ \E renders \in BOOLEAN :
              svg' = render_or_placeholder(ThermometerTemplate(l), renders)

\* one call of generate_thermometer_svg(&config, width)
generate_thermometer_svg ==
    /\ template = NoTemplate
    /\ svg_response = NoSvgResponse
    /\ Generate(width)
    /\ UNCHANGED <<config, width, svg_response>>
    /\ UNCHANGED <<png_vars, server_vars, memory_vars>>

\* GET /thermometer-light.svg and /thermometer-dark.svg, for a load_config
\* that succeeds or not: the document is generated at base_width and sent
thermometer_svg(dark, loaded) ==
    /\ template = NoTemplate
    /\ svg_response = NoSvgResponse
    /\ width = BaseWidth
    /\ IF ~loaded
       THEN /\ svg_response' = [dark |-> dark, status |-> 500,
                                content_type |-> "text/plain",
                                body |-> "Failed to load configuration"]
            /\ UNCHANGED <<geometry, template, svg>>
       ELSE /\ Generate(BaseWidth)
            /\ svg_response' = [dark |-> dark, status |-> 200,
                                content_type |-> "image/svg+xml",
                                body |-> svg'.document]
    /\ UNCHANGED <<config, width>>
    /\ UNCHANGED <<png_vars, server_vars, memory_vars>>

thermometer_light_svg_route == \E loaded \in BOOLEAN : thermometer_svg(FALSE, loaded)
thermometer_dark_svg_route  == \E loaded \in BOOLEAN : thermometer_svg(TRUE, loaded)

LayoutNext ==
    \/ generate_thermometer_svg
    \/ thermometer_light_svg_route
    \/ thermometer_dark_svg_route

vars == <<layout_vars, png_vars, server_vars, memory_vars>>

SpecLayout == LayoutInit /\ [][LayoutNext]_vars

----------------------------------------------------------------------------
(* Properties of generate_thermometer_svg, under SpecLayout *)

Rendered == template # NoTemplate

\* the completion ratio of the rendered state: progress_percent / 100
completion == FDiv(geometry.progress_percent, F(100))

\* the mathematical sum of a list of amounts (right to left)
RECURSIVE AmountsSum(_)
AmountsSum(teams) ==
    IF teams = <<>> THEN F(0)
    ELSE FAdd(Head(teams).total_raised, AmountsSum(Tail(teams)))

NonNegativeAmounts == \A i \in 1..Len(config.teams) : FLe(F(0), config.teams[i].total_raised)

\* C4: for goal > 0 and non-negative team amounts the completion ratio lies
\* in [0, 1], and it is exactly 1 when the sum of the amounts reaches the goal.
C4_CompletionInUnitInterval ==
    (Rendered /\ FGt(config.goal, F(0)) /\ NonNegativeAmounts) =>
        /\ FLe(F(0), completion)
        /\ FLe(completion, F(1))
        /\ FLe(config.goal, AmountsSum(config.teams)) => completion = F(1)

C4_Witness ==
    /\ Rendered
    /\ config.goal = F(10)
    /\ Len(config.teams) = 2
    /\ NonNegativeAmounts
    /\ AmountsSum(config.teams) = F(30)
    /\ completion = F(1)

\* C5: for every goal and every list of team amounts, negative sums
\* included, the completion ratio (and the percentage text) lies in [0, 1].
C5_CompletionAlwaysInUnitInterval ==
    Rendered =>
        /\ FLe(F(0), completion)
        /\ FLe(completion, F(1))
        /\ template.progress_percent.k = "fin"
        /\ template.progress_percent.n \in 0..100

\* C6: for goal <= 0 the completion ratio is 0 and the fill rectangle has
\* height 0, whatever the team amounts.
C6_NonPositiveGoal ==
    (Rendered /\ FLe(config.goal, F(0))) =>
        /\ completion = F(0)
        /\ geometry.fill_height = F(0)
        /\ template.fill_height = Fmt2(F(0))
        /\ template.progress_percent = Fmt0(F(0))

C6_Witness ==
    /\ Rendered
    /\ config.goal = F(0)
    /\ config.teams # <<>>
    /\ FGt(geometry.total_raised, F(0))
    /\ geometry.fill_height = F(0)

\* C7: the fill rectangle is anchored to the bottom of the tube and stays
\* inside it: fill_height = max(tube_height * completion, 0),
\* 0 <= fill_height <= tube_height, fill_y + fill_height = tube_y + tube_height.
C7_FillInsideTube ==
    Rendered =>
        /\ geometry.fill_height = FMax(FMul(geometry.tube_height, completion), F(0))
        /\ FLe(F(0), geometry.fill_height)
        /\ FLe(geometry.fill_height, geometry.tube_height)
        /\ FAdd(geometry.fill_y, geometry.fill_height)
               = FAdd(geometry.tube_y, geometry.tube_height)
        /\ FLe(geometry.tube_y, geometry.fill_y)

\* a partly filled tube, and a negative sum clamped to an empty one
C7_Witness ==
    /\ Rendered
    /\ width = BaseWidth
    /\ config.goal = F(10)
    /\ geometry.total_raised = F(5)
    /\ geometry.fill_height = FDiv(geometry.tube_height, F(2))
    /\ FLt(geometry.tube_y, geometry.fill_y)

\* C10: the markers are the six levels 100, 80, 60, 40, 20, 0 in that order,
\* at y = tube_y + tube_height * (1 - p/100): strictly increasing from the
\* top of the tube (100%) to its bottom (0%).
C10_Markers ==
    Rendered =>
        LET m == template.percentage_markers
            levels == <<100, 80, 60, 40, 20, 0>>
        IN  /\ Len(m) = 6
            /\ \A i \in 1..6 :
                  /\ m[i].percentage = levels[i]
                  /\ geometry.marker_y[i] =
                        FAdd(geometry.tube_y,
                             FMul(geometry.tube_height,
                                  FSub(F(1), Dec(levels[i], 100))))
                  /\ m[i].y = Fmt2(geometry.marker_y[i])
            /\ \A i \in 1..5 :
                  /\ FLt(geometry.marker_y[i], geometry.marker_y[i + 1])
                  /\ m[i].y.n < m[i + 1].y.n
            /\ geometry.marker_y[1] = geometry.tube_y
            /\ geometry.marker_y[6] = FAdd(geometry.tube_y, geometry.tube_height)

C10_Witness ==
    /\ Rendered
    /\ width = BaseWidth
    /\ template.percentage_markers[1].y = Fmt2(F(144))
    /\ template.percentage_markers[6].y = Fmt2(F(608))
    /\ template.percentage_markers[6].percentage = 0

----------------------------------------------------------------------------
(* Scaling of the layout, under SpecLayout *)

MaxK == 3
MaxScalingWidth == 12

\* The scaling runs: every width up to MaxScalingWidth and the endpoints'
\* width, each configuration with at most one team
ScalingInit ==
    /\ config \in [goal : Goals,
                   teams : {<<>>} \cup {<<Team("team", a)>> : a \in Amounts}]
    /\ width \in (1..MaxScalingWidth) \cup {BaseWidth}
    /\ geometry = NoGeometry
    /\ template = NoTemplate
    /\ svg = NoSvg
    /\ svg_response = NoSvgResponse
    /\ PngIdle
    /\ ServerIdle
    /\ MemoryIdle

SpecScaling == ScalingInit /\ [][LayoutNext]_vars

\* the template generate_thermometer_svg builds for the same configuration
\* at k times the width
TemplateAt(k) == ThermometerTemplate(Locals(config, width * k))

\* b is k times a "within rounding to two decimals": a and b are digits in
\* hundredths, each at most half a hundredth from its exact value
WithinRounding(a, b, k) == 2 * Abs(b - k * a) <= k + 1

\* emitted dimensions that the code computes as a proportion of the width
WidthDims(t) ==
    << t.tube_x.n, t.tube_width.n, t.bulb_center_x.n, t.bulb_radius.n,
       t.title_x.n, t.text_x.n, t.title_font_size.n, t.amount_font_size.n,
       t.label_font_size.n, t.percent_font_size.n, t.percent_label_font_size.n,
       t.percentage_markers[1].font_size.n >>

\* emitted dimensions that the code derives from the canvas height
HeightDims(t) ==
    << t.height * 100, t.tube_y.n, t.tube_height.n, t.fill_y.n, t.fill_height.n,
       t.bulb_center_y.n, t.title_y.n, t.achieved_y.n, t.achieved_label_y.n,
       t.goal_y.n, t.goal_label_y.n, t.percent_y.n, t.percent_label_y.n >>
    \o [i \in 1..6 |-> t.percentage_markers[i].y.n]
    \o [i \in 1..6 |-> t.percentage_markers[i].text_y.n]

\* emitted dimensions that carry a fixed offset in pixels, each with its
\* offset in hundredths: fill_x = tube_x + 2.5, fill_width = tube_width - 5,
\* bulb_fill_radius = bulb_radius - 3, line ends at -5, the label at -10
OffsetDims(t) ==
    << <<t.fill_x.n, 250>>, <<t.fill_width.n, -500>>,
       <<t.bulb_fill_radius.n, -300>>,
       <<t.percentage_markers[1].line_x1.n, -500>>,
       <<t.percentage_markers[1].line_x2.n, -500>>,
       <<t.percentage_markers[1].text_x.n, -1000>> >>

Scales(a, b, k) ==
    LET x == a
        y == b
    IN  \A i \in 1..Len(x) : WithinRounding(x[i], y[i], k)

----------------------------------------------------------------------------
(* thermometer.rs: svg_to_png; main.rs: the PNG endpoints *)

Absent       == [k |-> "absent", n |-> 0, d |-> 1]
NoCall       == [none |-> TRUE]
NoResponse   == [none |-> TRUE]
NoPng        == [none |-> TRUE]

default_scale == F(1)

\* serde: ThermometerQuery { scale } with #[serde(default = "default_scale")]
ThermometerQuery(q) == [scale |-> IF q = Absent THEN default_scale ELSE q]

\* mutant: only the lower limit is applied
validate_scale_no_upper(scale) == FMax(scale, Dec(1, 10))

\* params.scale.max(0.1).min(5.0)
validate_scale(scale) == FMin(FMax(scale, Dec(1, 10)), F(5))

\* mutant: the product rounded to the nearest integer
scaled_size_rounded(len, scale) == AsU32(FAdd(FMul(len, scale), Dec(1, 2)))

\* (size.width() * scale) as u32
scaled_size(len, scale) == AsU32(FMul(len, scale))

\* Pixmap::new(width, height): None for an empty pixmap
PixmapNew(w, h) == IF w = 0 \/ h = 0 THEN NoPng ELSE [width |-> w, height |-> h]

\* mutant: a failed encoding is passed over and the pixmap returned
svg_to_png_unchecked_encode(tree, scale, encodes) ==
    IF ~tree.parses
    THEN [ok |-> FALSE, err |-> "Failed to parse SVG", png |-> NoPng,
          stages |-> <<"parse">>]
    ELSE LET w == scaled_size(tree.width, scale)
             h == scaled_size(tree.height, scale)
             pixmap == PixmapNew(w, h)
         IN  IF pixmap = NoPng
             THEN [ok |-> FALSE, err |-> "Failed to create pixmap", png |-> NoPng,
                   stages |-> <<"parse", "pixmap">>]
             ELSE [ok |-> TRUE, err |-> "", png |-> pixmap,
                   stages |-> <<"parse", "pixmap", "render", "encode">>]

\* svg_to_png(svg_data, scale), for a document usvg parses to `tree` (or
\* fails to parse) and a PNG encoder that succeeds or not.  stages: the
\* stages that ran (usvg::Tree::from_str, Pixmap::new, resvg::render,
\* encode_png), each `?` returning at the first failure.
svg_to_png(tree, scale, encodes) ==
    IF ~tree.parses
    THEN [ok |-> FALSE, err |-> "Failed to parse SVG", png |-> NoPng,
          stages |-> <<"parse">>]
    ELSE LET w == scaled_size(tree.width, scale)
             h == scaled_size(tree.height, scale)
             pixmap == PixmapNew(w, h)
         IN  IF pixmap = NoPng
             THEN [ok |-> FALSE, err |-> "Failed to create pixmap", png |-> NoPng,
                   stages |-> <<"parse", "pixmap">>]
             ELSE IF ~encodes
             THEN [ok |-> FALSE, err |-> "Failed to encode PNG", png |-> NoPng,
                   stages |-> <<"parse", "pixmap", "render", "encode">>]
             ELSE [ok |-> TRUE, err |-> "", png |-> pixmap,
                   stages |-> <<"parse", "pixmap", "render", "encode">>]

\* The inputs of the PNG runs.  The template of the document is not part of
\* the sources, so the handler's document may parse to any of these trees.
ScaleValues ==
    { F(-1), F(0), Dec(5, 100), Dec(1, 10), Dec(333, 1000), Dec(1, 2), F(1),
      Dec(5, 2), F(5), Dec(5001, 1000), F(10), NaN, PosInf, NegInf }
Queries == {Absent} \cup ScaleValues
Trees ==
    {[parses |-> FALSE, width |-> F(0), height |-> F(0)]} \cup
    {[parses |-> TRUE, width |-> sz[1], height |-> sz[2]] :
        sz \in { <<F(800), F(960)>>, <<F(1), F(1)>>, <<F(3), F(7)>>,
                 <<Dec(21, 2), Dec(81, 4)>>, <<F(1000), F(15)>> }}

PngInit ==
    /\ query \in Queries
    /\ svg_tree \in Trees
    /\ png_encodes \in BOOLEAN
    /\ raster_call = NoCall
    /\ image_response = NoResponse
    /\ LayoutIdle
    /\ ServerIdle
    /\ MemoryIdle

\* GET /thermometer-light.png and /thermometer-dark.png: load the
\* configuration, clamp the scale, generate the document, rasterize it
thermometer_image(dark, loaded) ==
    /\ image_response = NoResponse
    /\ IF ~loaded
       THEN /\ image_response' =
                 [status |-> 500, content_type |-> "text/plain",
                  message |-> "Failed to load configuration", png |-> NoPng]
            /\ UNCHANGED raster_call
       ELSE LET params == ThermometerQuery(query)
                scale == validate_scale(params.scale)
                result == svg_to_png(svg_tree, scale, png_encodes)
            IN  /\ raster_call' = [dark |-> dark, scale |-> scale,
                                    stages |-> result.stages, err |-> result.err]
                /\ image_response' =
                     IF result.ok
                     THEN [status |-> 200, content_type |-> "image/png",
                           message |-> "", png |-> result.png]
                     ELSE [status |-> 500, content_type |-> "text/plain",
                           message |-> "Failed to render thermometer image",
                           png |-> NoPng]
    /\ UNCHANGED <<query, svg_tree, png_encodes>>
    /\ UNCHANGED <<layout_vars, server_vars, memory_vars>>

thermometer_light_image == \E loaded \in BOOLEAN : thermometer_image(FALSE, loaded)
thermometer_dark_image  == \E loaded \in BOOLEAN : thermometer_image(TRUE, loaded)

PngNext == thermometer_light_image \/ thermometer_dark_image

SpecPng == PngInit /\ [][PngNext]_vars

----------------------------------------------------------------------------
(* Properties of the PNG endpoints and of svg_to_png, under SpecPng *)

\* C3: the scale handed to svg_to_png lies in [0.1, 5.0]: a request value in
\* the range is passed unchanged, one below 0.1 as 0.1, one above 5.0 as 5.0,
\* an absent one as 1.0.
C3_ScaleClamped ==
    raster_call # NoCall =>
        LET s == raster_call.scale
        IN  /\ FLe(Dec(1, 10), s)
            /\ FLe(s, F(5))
            /\ query = Absent => s = F(1)
            /\ (query # Absent /\ FLe(Dec(1, 10), query) /\ FLe(query, F(5))) => s = query
            /\ (query # Absent /\ FLt(query, Dec(1, 10))) => s = Dec(1, 10)
            /\ (query # Absent /\ FGt(query, F(5))) => s = F(5)

\* scale=10.0 reaches the rasterizer as 5.0 and the PNG is 4000 x 4800
C3_Witness ==
    /\ query = F(10)
    /\ raster_call # NoCall
    /\ raster_call.scale = F(5)
    /\ image_response.status = 200
    /\ image_response.png = [width |-> 4000, height |-> 4800]

Produced == image_response # NoResponse /\ image_response.png # NoPng

\* the nearest integer to a non-negative finite x (halves upward)
RoundNearest(x) == (2 * x.n + x.d) \div (2 * x.d)
\* the integer part of a non-negative finite x
IntegerPart(x) == x.n \div x.d

\* C8 (as stated): the bitmap's pixel dimensions are round(intrinsic * scale)
\* on both axes.
C8_RoundedDimensions ==
    Produced =>
        /\ image_response.png.width = RoundNearest(FMul(svg_tree.width, raster_call.scale))
        /\ image_response.png.height = RoundNearest(FMul(svg_tree.height, raster_call.scale))

\* C8 (amended): the bitmap's pixel dimensions are intrinsic * scale with the
\* fraction dropped, on both axes, and both are at least 1.
C8_TruncatedDimensions ==
    Produced =>
        /\ image_response.png.width = IntegerPart(FMul(svg_tree.width, raster_call.scale))
        /\ image_response.png.height = IntegerPart(FMul(svg_tree.height, raster_call.scale))
        /\ image_response.png.width >= 1
        /\ image_response.png.height >= 1

\* 800 x 960 at scale 0.333: 266.4 x 319.68 becomes 266 x 319
C8_Witness ==
    /\ Produced
    /\ svg_tree.width = F(800)
    /\ svg_tree.height = F(960)
    /\ raster_call.scale = Dec(333, 1000)
    /\ image_response.png = [width |-> 266, height |-> 319]

----------------------------------------------------------------------------
(* main.rs, storage.rs: the configuration store and the handlers *)

Clients == {"c1", "c2"}
MaxClock == 1

NoDocument == [none |-> TRUE]

\* ThermometerConfig::default(), built at time now
ThermometerConfigDefault(now) ==
    [ organization_name |-> "Community Animal Rescue Effort",
      title             |-> "Animal Shelter Donation Drive",
      goal              |-> F(10000),
      teams             |-> <<>>,
      last_updated      |-> now ]

\* Header values and keys are strings made of two pieces: the seven
\* characters "Bearer " and some other text "k".
HeaderValues ==
    { <<>>, <<"k">>, <<"Bearer ">>, <<"k", "Bearer ">>, <<"Bearer ", "k">>,
      <<"Bearer ", "Bearer ", "k">> }

\* the Authorization header of a request: missing, not visible ASCII
\* (HeaderValue::to_str fails), or a string
MissingHeader == [kind |-> "missing", value |-> <<>>]
OpaqueHeader  == [kind |-> "opaque", value |-> <<>>]
TextHeader(v) == [kind |-> "text", value |-> v]
AuthorizationHeaders ==
    {MissingHeader, OpaqueHeader} \cup {TextHeader(v) : v \in HeaderValues}

\* the keys the server may run with (THERMOMETER_EDIT_KEY)
EditKeys == {<<"k">>, <<"Bearer ", "k">>}

\* str::strip_prefix("Bearer ").unwrap_or(auth_header)
strip_prefix_Bearer(v) == IF Len(v) >= 1 /\ v[1] = "Bearer " THEN Tail(v) ELSE v

\* mutant: a header with the Bearer prefix is accepted whatever follows
verify_auth_any_bearer(hdr, expected_key) ==
    IF hdr.kind # "text" THEN 401
    ELSE IF Len(hdr.value) >= 1 /\ hdr.value[1] = "Bearer " THEN 0
    ELSE IF hdr.value # expected_key THEN 401 ELSE 0

\* verify_auth: 0 for Ok(()), else the status of the error
verify_auth(hdr, expected_key) ==
    IF hdr.kind # "text" THEN 401
    ELSE IF strip_prefix_Bearer(hdr.value) # expected_key THEN 401
    ELSE 0

\* Request bodies of POST /admin/config that Json<ThermometerConfig> accepts
NewConfigs ==
    { [ organization_name |-> "Shelter", title |-> "Spring Drive", goal |-> F(500),
        teams |-> <<Team("Alpha", F(5))>>, last_updated |-> 0 ] }

\* CSV rows: a record csv's deserializer accepts, or one it rejects
GoodRow(t) == [ok |-> TRUE, team |-> t]
BadRow     == [ok |-> FALSE, team |-> Team("", F(0))]
CsvFiles ==
    { <<>>, <<GoodRow(Team("Beta", F(25)))>>,
      <<GoodRow(Team("Beta", F(25))), BadRow>> }

\* Multipart fields: next_field() fails, a field of another name, a field
\* named "file" whose bytes cannot be read or hold a CSV file
BrokenField      == [kind |-> "broken", rows |-> <<>>]
OtherField       == [kind |-> "other", rows |-> <<>>]
UnreadableFile   == [kind |-> "unreadable_file", rows |-> <<>>]
FileField(rows)  == [kind |-> "file", rows |-> rows]

\* the bodies of POST /admin/upload that the Multipart extractor accepts
Multiparts ==
    { <<>>, <<BrokenField>>, <<OtherField>>, <<UnreadableFile>> }
    \cup { <<FileField(f)>> : f \in CsvFiles }
    \cup { <<OtherField, FileField(<<GoodRow(Team("Beta", F(25)))>>)>>,
           <<FileField(<<>>), FileField(<<BadRow>>)>> }

\* the rows of a CSV file as teams
RowsToTeams(rows) == [i \in 1..Len(rows) |-> rows[i].team]

\* mutant: a row that fails to parse is skipped
RECURSIVE process_multipart_skipping_rows(_, _)
process_multipart_skipping_rows(mp, i) ==
    IF i > Len(mp) THEN [status |-> 400, teams |-> <<>>]
    ELSE CASE mp[i].kind = "broken" -> [status |-> 400, teams |-> <<>>]
           [] mp[i].kind = "other" -> process_multipart_skipping_rows(mp, i + 1)
           [] mp[i].kind = "unreadable_file" -> [status |-> 400, teams |-> <<>>]
           [] mp[i].kind = "file" ->
                [status |-> 0,
                 teams |-> RowsToTeams(SelectSeq(mp[i].rows, LAMBDA r : r.ok))]

\* upload_csv's loop over the multipart fields, from field i: the status of
\* the error it returns, or 0 and the teams parsed from the first field
\* named "file"
RECURSIVE process_multipart(_, _)
process_multipart(mp, i) ==
    IF i > Len(mp) THEN [status |-> 400, teams |-> <<>>]
    ELSE CASE mp[i].kind = "broken" -> [status |-> 400, teams |-> <<>>]
           [] mp[i].kind = "other" -> process_multipart(mp, i + 1)
           [] mp[i].kind = "unreadable_file" -> [status |-> 400, teams |-> <<>>]
           [] mp[i].kind = "file" ->
                IF \E r \in 1..Len(mp[i].rows) : ~mp[i].rows[r].ok
                THEN [status |-> 400, teams |-> <<>>]
                ELSE [status |-> 0, teams |-> RowsToTeams(mp[i].rows)]

\* Responses: the status of the answer
Response(status) == [status |-> status]

ReadOnlyKinds ==
    { "home_page", "thermometer_light_svg", "thermometer_dark_svg",
      "thermometer_light_image", "thermometer_dark_image", "get_config" }
ImageKinds == {"thermometer_light_image", "thermometer_dark_image"}

\* what a read-only handler answers once its configuration is loaded: the
\* page, the SVG or the JSON, and on the image endpoints the PNG, or 500 when
\* svg_to_png returned an error (rasterizes is FALSE)
LoadedResponse(kind, rasterizes) ==
    IF kind \in ImageKinds /\ ~rasterizes THEN Response(500) ELSE Response(200)

\* what a handler answers when load_config fails
LoadFailedResponse(kind) == Response(500)

\* A handler between its operations on the store: its position, the route,
\* the request's Authorization header, the teams parsed from the upload,
\* the configuration it holds, and whether its load_config has saved the
\* default configuration
Idle == [pc |-> "idle", kind |-> "", authorization |-> MissingHeader,
         teams |-> <<>>, config |-> NoDocument, saved_default |-> FALSE]

\* the outcomes of svg_to_png in a handler of the given route
Rasterizations(kind) == IF kind \in ImageKinds THEN BOOLEAN ELSE {TRUE}

\* Firestore operations may fail; the RwLock of InMemoryStorage never does
StorageOutcomes == IF backend = "memory" THEN {TRUE} ELSE BOOLEAN

\* mutant: the configuration saved for a missing document has no goal
default_config_zero_goal(now) == [ThermometerConfigDefault(now) EXCEPT !.goal = F(0)]

\* FirestoreStorage::load_config, None: the default configuration to save
default_config(now) == ThermometerConfigDefault(now)

\* The handler h continues with the loaded configuration cfg: a read-only
\* handler answers; upload_csv replaces teams and last_updated and goes on
\* to save.  rasterizes: whether svg_to_png returns Ok.
AfterLoad(h, cfg, rasterizes) ==
    IF h.kind = "upload_csv"
    THEN [ handler |-> [h EXCEPT !.pc = "save",
                                 !.config = [cfg EXCEPT !.teams = h.teams,
                                                        !.last_updated = clock]],
           response |-> NoResponse ]
    ELSE [ handler |-> Idle, response |-> LoadedResponse(h.kind, rasterizes) ]

\* state.storage.load_config().await, first operation: InMemoryStorage
\* clones the value under the read lock; FirestoreStorage reads the
\* document and, finding none, goes on to save the default configuration.
load_config(c, h) ==
    \E ok \in StorageOutcomes, rasterizes \in Rasterizations(h.kind) :
        /\ UNCHANGED stored
        /\ IF ~ok
           THEN /\ handlers' = [handlers EXCEPT ![c] = Idle]
                /\ response' = LoadFailedResponse(h.kind)
           ELSE IF stored # NoDocument
           THEN /\ handlers' = [handlers EXCEPT ![c] = AfterLoad(h, stored, rasterizes).handler]
                /\ response' = AfterLoad(h, stored, rasterizes).response
           ELSE /\ handlers' = [handlers EXCEPT ![c] =
                                   [h EXCEPT !.pc = "save_default",
                                             !.config = default_config(clock)]]
                /\ response' = NoResponse

\* FirestoreStorage::load_config, None: self.save_config(&default_config).await?
load_config_save_default(c) ==
    /\ handlers[c].pc = "save_default"
    /\ \E ok \in StorageOutcomes, rasterizes \in Rasterizations(handlers[c].kind) :
          IF ~ok
          THEN /\ handlers' = [handlers EXCEPT ![c] = Idle]
               /\ response' = LoadFailedResponse(handlers[c].kind)
               /\ UNCHANGED stored
          ELSE /\ stored' = handlers[c].config
               /\ handlers' = [handlers EXCEPT ![c] =
                                  AfterLoad([handlers[c] EXCEPT !.saved_default = TRUE],
                                            handlers[c].config, rasterizes).handler]
               /\ response' = AfterLoad(handlers[c], handlers[c].config, rasterizes).response
    /\ UNCHANGED <<backend, edit_key, clock>>
    /\ UNCHANGED <<layout_vars, png_vars, memory_vars>>

\* A read-only handler: home_page, the four thermometer endpoints, get_config.
\* The image endpoints take Query<ThermometerQuery>, which answers 400 itself
\* when the query string does not deserialize.
read_only(c, kind) ==
    /\ handlers[c] = Idle
    /\ \/ /\ kind \in ImageKinds
          /\ response' = Response(400)
          /\ UNCHANGED <<handlers, stored>>
       \/ load_config(c, [Idle EXCEPT !.kind = kind])
    /\ UNCHANGED <<backend, edit_key, clock>>
    /\ UNCHANGED <<layout_vars, png_vars, memory_vars>>

home_page(c)                == read_only(c, "home_page")
thermometer_light_svg(c)    == read_only(c, "thermometer_light_svg")
thermometer_dark_svg(c)     == read_only(c, "thermometer_dark_svg")
thermometer_light_png(c)    == read_only(c, "thermometer_light_image")
thermometer_dark_png(c)     == read_only(c, "thermometer_dark_image")
get_config(c)               == read_only(c, "get_config")

\* POST /admin/upload, up to load_config, for a request with Authorization
\* header hdr.  extracted: whether the Multipart extractor accepted the
\* request (it runs before the handler and answers 400 itself otherwise);
\* mp: the fields of the body.  The answer, or NoResponse and the teams
\* parsed when the handler goes on to load_config.
upload_csv_before_load(hdr, extracted, mp) ==
    IF ~extracted
    THEN [response |-> Response(400), teams |-> <<>>]
    ELSE IF verify_auth(hdr, edit_key) # 0
    THEN [response |-> Response(verify_auth(hdr, edit_key)),
          teams |-> <<>>]
    ELSE IF process_multipart(mp, 1).status # 0
    THEN [response |-> Response(process_multipart(mp, 1).status),
          teams |-> <<>>]
    ELSE [response |-> NoResponse, teams |-> process_multipart(mp, 1).teams]

\* POST /admin/upload: the request arrives and runs to its first operation
\* on the store
upload_csv(c, hdr, extracted, mp) ==
    /\ handlers[c] = Idle
    /\ IF upload_csv_before_load(hdr, extracted, mp).response # NoResponse
       THEN /\ response' = upload_csv_before_load(hdr, extracted, mp).response
            /\ UNCHANGED <<handlers, stored>>
       ELSE load_config(c, [Idle EXCEPT !.kind = "upload_csv",
                                        !.authorization = hdr,
                                        !.teams = upload_csv_before_load(hdr, extracted, mp).teams])
    /\ UNCHANGED <<backend, edit_key, clock>>
    /\ UNCHANGED <<layout_vars, png_vars, memory_vars>>

\* upload_csv: state.storage.save_config(&config).await and the answer
upload_csv_save(c) ==
    /\ handlers[c].pc = "save"
    /\ \E ok \in StorageOutcomes :
          IF ~ok
          THEN /\ response' = Response(500)
               /\ UNCHANGED stored
          ELSE /\ stored' = handlers[c].config
               /\ response' = Response(200)
    /\ handlers' = [handlers EXCEPT ![c] = Idle]
    /\ UNCHANGED <<backend, edit_key, clock>>
    /\ UNCHANGED <<layout_vars, png_vars, memory_vars>>

\* POST /admin/config, up to save_config, for a request with Authorization
\* header hdr.  rejection: 0 when the Json<ThermometerConfig> extractor
\* accepted the body, else the status it answered itself, before the handler
\* ran.  The answer, or NoResponse when the handler goes on to save_config.
update_config_before_save(hdr, rejection) ==
    IF rejection # 0 THEN Response(rejection)
    ELSE IF verify_auth(hdr, edit_key) # 0
    THEN Response(verify_auth(hdr, edit_key))
    ELSE NoResponse

\* POST /admin/config with body new_config
update_config(c, hdr, rejection, new_config) ==
    /\ handlers[c] = Idle
    /\ IF update_config_before_save(hdr, rejection) # NoResponse
       THEN /\ response' = update_config_before_save(hdr, rejection)
            /\ UNCHANGED stored
       ELSE \E ok \in StorageOutcomes :
               IF ~ok
               THEN /\ response' = Response(500)
                    /\ UNCHANGED stored
               ELSE /\ stored' = [new_config EXCEPT !.last_updated = clock]
                    /\ response' = Response(200)
    /\ UNCHANGED <<handlers, backend, edit_key, clock>>
    /\ UNCHANGED <<layout_vars, png_vars, memory_vars>>

\* JsonRejection: syntax error, missing content type, data error
JsonRejections == {400, 415, 422}

\* the bodies with which a request carrying header hdr is delivered: all of
\* them when verify_auth lets the request through, one otherwise (the body
\* is then not looked at)
UploadBodies(hdr) == IF verify_auth(hdr, edit_key) = 0 THEN Multiparts ELSE {<<>>}
ConfigBodies(hdr) == IF verify_auth(hdr, edit_key) = 0 THEN NewConfigs ELSE {NoDocument}

\* the headers with which a body that the extractor rejects is delivered:
\* none, and the edit key (the extractor answers before the handler reads
\* the header)
RejectedHeaders == {MissingHeader, TextHeader(edit_key)}

\* time passes
Tick ==
    /\ clock < MaxClock
    /\ clock' = clock + 1
    /\ response' = NoResponse
    /\ UNCHANGED <<backend, edit_key, stored, handlers>>
    /\ UNCHANGED <<layout_vars, png_vars, memory_vars>>

\* create_storage and main: the in-memory store starts with the default
\* configuration; the Firestore document may be missing or hold any
\* configuration saved earlier
Init ==
    /\ backend \in {"memory", "firestore"}
    /\ edit_key \in EditKeys
    /\ clock = 0
    /\ stored \in IF backend = "memory"
                  THEN {ThermometerConfigDefault(0)}
                  ELSE {NoDocument} \cup NewConfigs
    /\ handlers = [c \in Clients |-> Idle]
    /\ response = NoResponse
    /\ LayoutIdle
    /\ PngIdle
    /\ MemoryIdle

Next ==
    \/ Tick
    \/ \E c \in Clients : home_page(c)
    \/ \E c \in Clients : thermometer_light_svg(c)
    \/ \E c \in Clients : thermometer_dark_svg(c)
    \/ \E c \in Clients : thermometer_light_png(c)
    \/ \E c \in Clients : thermometer_dark_png(c)
    \/ \E c \in Clients : get_config(c)
    \/ \E c \in Clients : load_config_save_default(c)
    \/ \E c \in Clients, hdr \in RejectedHeaders : upload_csv(c, hdr, FALSE, <<>>)
    \/ \E c \in Clients, hdr \in AuthorizationHeaders :
          \E mp \in UploadBodies(hdr) : upload_csv(c, hdr, TRUE, mp)
    \/ \E c \in Clients : upload_csv_save(c)
    \/ \E c \in Clients, hdr \in RejectedHeaders, rejection \in JsonRejections :
          update_config(c, hdr, rejection, NoDocument)
    \/ \E c \in Clients, hdr \in AuthorizationHeaders :
          \E new_config \in ConfigBodies(hdr) : update_config(c, hdr, 0, new_config)

Spec == Init /\ [][Next]_vars

----------------------------------------------------------------------------
(* Properties of the admin endpoints and of the read-only endpoints *)

\* the header equals the edit key, bare or prefixed with "Bearer "
HeaderEqualsKey(hdr) ==
    /\ hdr.kind = "text"
    /\ \/ hdr.value = edit_key
       \/ hdr.value = <<"Bearer ">> \o edit_key

\* an admin request with header hdr whose body the extractor rejects
RejectedAdminRequest(c, hdr) ==
    \/ upload_csv(c, hdr, FALSE, <<>>)
    \/ \E rejection \in JsonRejections : update_config(c, hdr, rejection, NoDocument)

\* an admin request with header hdr whose body passes the extractor
ExtractedAdminRequest(c, hdr) ==
    \/ \E mp \in UploadBodies(hdr) : upload_csv(c, hdr, TRUE, mp)
    \/ \E new_config \in ConfigBodies(hdr) : update_config(c, hdr, 0, new_config)

\* a request to an admin endpoint arrives with Authorization header hdr
AdminRequest(c, hdr) == RejectedAdminRequest(c, hdr) \/ ExtractedAdminRequest(c, hdr)

\* any step of an admin request with header hdr: its arrival or a later
\* operation of upload_csv on the store
AdminStep(c, hdr) ==
    \/ AdminRequest(c, hdr)
    \/ /\ handlers[c].kind = "upload_csv"
       /\ handlers[c].authorization = hdr
       /\ (upload_csv_save(c) \/ load_config_save_default(c))

Unauthorized == Response(401)

\* an upload that has gone on to the store carries a header equal to the
\* edit key, and no step of an admin request whose header differs from the
\* edit key changes the stored configuration
OnlyKeyHoldersWrite ==
    /\ \A c \in Clients :
          handlers[c].kind = "upload_csv" => HeaderEqualsKey(handlers[c].authorization)
    /\ [][stored' # stored =>
             \A c \in Clients, hdr \in AuthorizationHeaders :
                ~HeaderEqualsKey(hdr) => ~AdminStep(c, hdr)]_vars

ReadOnlyStep(c) ==
    \/ \E kind \in ReadOnlyKinds : read_only(c, kind)
    \/ /\ handlers[c].kind \in ReadOnlyKinds
       /\ load_config_save_default(c)

\* C2 (as stated): read-only requests (the four thermometer endpoints, the
\* home page, GET /config) never change the stored configuration, on either
\* storage backend.
C2_ReadOnlyNeverWrites ==
    [][stored' # stored => \A c \in Clients : ~ReadOnlyStep(c)]_vars

\* the default configuration, saved at any time
IsDefault(cfg) == cfg # NoDocument /\ cfg = ThermometerConfigDefault(cfg.last_updated)

\* C2 (amended): a read-only request leaves the stored configuration
\* unchanged on the in-memory backend, and on Firestore whenever its read
\* finds a document; its only write is on Firestore, after its read found no
\* document: it then saves the default configuration (goal 10000, no
\* teams), whatever the store holds by then.
C2_ReadOnlyWritesOnlyDefault ==
    [][\A c \in Clients :
          /\ (stored' # stored \/ handlers'[c].pc = "save_default") =>
                \A kind \in ReadOnlyKinds :
                   read_only(c, kind) =>
                      /\ stored' = stored
                      /\ handlers'[c].pc = "save_default" =>
                            (backend = "firestore" /\ stored = NoDocument)
          /\ stored' # stored =>
                ((handlers[c].kind \in ReadOnlyKinds /\ load_config_save_default(c)) =>
                    (backend = "firestore" /\ IsDefault(stored')))]_vars

\* on Firestore a read-only request has saved the default configuration and
\* answered with it
C2_Witness ==
    /\ backend = "firestore"
    /\ stored = ThermometerConfigDefault(1)
    /\ response.status = 200
    /\ \A c \in Clients : handlers[c] = Idle

----------------------------------------------------------------------------
(* The canvas and the bounding box of generate_thermometer_svg, under SpecLayout *)

C12_BaseWidthLayout ==
    /\ BaseWidth = 800
    /\ (Rendered /\ width = BaseWidth) =>
          /\ geometry.height = 960
          /\ template.height = 960
          /\ geometry.thermometer_x = F(80)
          /\ geometry.thermometer_y = F(144)
          /\ geometry.thermometer_width = F(280)
          /\ geometry.thermometer_height = F(576)

\* the layout has been computed at the endpoints' width
C12_Witness ==
    /\ Rendered
    /\ width = BaseWidth
    /\ geometry.thermometer_height = F(576)

----------------------------------------------------------------------------
(* Failures of svg_to_png, under SpecPng *)

\* the stage at which the rasterization of this run fails, "" when none does
FailingStage ==
    IF ~svg_tree.parses THEN "parse"
    ELSE IF raster_call # NoCall
            /\ (scaled_size(svg_tree.width, raster_call.scale) = 0
                \/ scaled_size(svg_tree.height, raster_call.scale) = 0)
    THEN "pixmap"
    ELSE IF ~png_encodes THEN "encode"
    ELSE ""

\* the stages svg_to_png runs when it fails at stage f
StagesUpTo(f) ==
    CASE f = "parse"  -> <<"parse">>
      [] f = "pixmap" -> <<"parse", "pixmap">>
      [] OTHER        -> <<"parse", "pixmap", "render", "encode">>

\* C13: whenever svg_to_png fails at any of its three stages (scene parse,
\* pixel buffer allocation, PNG encoding) it returns an error without
\* running the later stages, and the PNG endpoint answers that request with
\* exactly one generic 500: the failure is not retried (the call and the
\* answer, once made, stay as they are) and no PNG body is sent for a failed
\* rasterization.
C13_RasterFailure ==
    /\ [](raster_call # NoCall =>
             /\ raster_call.stages = StagesUpTo(FailingStage)
             /\ (FailingStage # "") <=> (raster_call.err # "")
             /\ FailingStage # "" =>
                   /\ image_response.status = 500
                   /\ image_response.message = "Failed to render thermometer image"
                   /\ image_response.png = NoPng
             /\ FailingStage = "" =>
                   (image_response.status = 200 /\ image_response.png # NoPng))
    /\ [][image_response # NoResponse =>
             (raster_call' = raster_call /\ image_response' = image_response)]_vars

\* the pixel buffer of a 1 x 1 scene at scale 0.1 could not be allocated:
\* the later stages did not run and the answer is the 500
C13_Witness ==
    /\ raster_call # NoCall
    /\ raster_call.stages = <<"parse", "pixmap">>
    /\ raster_call.err = "Failed to create pixmap"
    /\ image_response.status = 500
    /\ image_response.png = NoPng

----------------------------------------------------------------------------
(* The document of generate_thermometer_svg and the SVG endpoints, under SpecLayout *)

\* a vector document: the rendered thermometer or the placeholder
IsVectorDocument(doc) ==
    \/ doc = ErrorPlaceholder
    \/ doc = RenderedDocument(template)

\* C14: scene composition never fails towards the caller: for every
\* configuration and width, generate_thermometer_svg returns a vector
\* document, which is the fixed error placeholder when template rendering
\* fails; an SVG endpoint whose configuration load succeeded answers 200
\* with that document as an image/svg+xml body, never with an error status.
C14_CompositionNeverFails ==
    /\ Rendered =>
          /\ svg # NoSvg
          /\ IsVectorDocument(svg.document)
          /\ svg.render_ok => svg.document = RenderedDocument(template)
          /\ ~svg.render_ok => svg.document = ErrorPlaceholder
    /\ (svg_response # NoSvgResponse /\ Rendered) =>
          /\ svg_response.status = 200
          /\ svg_response.content_type = "image/svg+xml"
          /\ svg_response.body = svg.document
          /\ IsVectorDocument(svg_response.body)
    /\ (svg_response # NoSvgResponse /\ svg_response.status # 200) => ~Rendered

\* rendering failed in an SVG endpoint and the placeholder was sent with 200
C14_Witness ==
    /\ svg_response # NoSvgResponse
    /\ svg # NoSvg
    /\ ~svg.render_ok
    /\ svg_response.status = 200
    /\ svg_response.body = ErrorPlaceholder

----------------------------------------------------------------------------
(* Uploads and concurrent admin requests, under Spec *)

\* C15: a CSV upload changes only the teams and last_updated of the stored
\* configuration, under every interleaving of concurrent admin requests:
\* immediately after upload_csv's save, the stored goal, title and
\* organization_name equal the values that were in the store immediately
\* before that save.
C15_UploadKeepsOtherFields ==
    [][stored' # stored =>
          \A c \in Clients :
             (handlers[c].kind = "upload_csv" /\ upload_csv_save(c)) =>
                /\ stored # NoDocument
                /\ stored'.goal = stored.goal
                /\ stored'.title = stored.title
                /\ stored'.organization_name = stored.organization_name]_vars


\* the position in mp of the first field named "file", 0 when there is none
RECURSIVE FirstFileFrom(_, _)
FirstFileFrom(mp, i) ==
    IF i > Len(mp) THEN 0
    ELSE IF mp[i].kind \in {"file", "unreadable_file"} THEN i
    ELSE FirstFileFrom(mp, i + 1)
FirstFile(mp) == FirstFileFrom(mp, 1)

\* upload_csv goes on to the store only with a body whose first field named
\* "file" holds a CSV file of which every row parsed, and with the teams of
\* those rows; otherwise it answers 400 or 401
UploadParsesWholeFile(hdr, mp) ==
    LET before == upload_csv_before_load(hdr, TRUE, mp)
    IN  IF before.response = NoResponse
        THEN /\ FirstFile(mp) > 0
             /\ mp[FirstFile(mp)].kind = "file"
             /\ \A r \in 1..Len(mp[FirstFile(mp)].rows) : mp[FirstFile(mp)].rows[r].ok
             /\ before.teams = RowsToTeams(mp[FirstFile(mp)].rows)
        ELSE before.response.status \in {400, 401}

\* the teams an upload holds on its way to the store are those parsed from
\* a body it can have been sent
HoldsParsedTeams(c) ==
    handlers[c].kind = "upload_csv" =>
        \E mp \in Multiparts :
            upload_csv_before_load(handlers[c].authorization, TRUE, mp) =
                [response |-> NoResponse, teams |-> handlers[c].teams]

\* any step of an upload of client c
UploadStep(c) ==
    \/ /\ handlers[c] = Idle
       /\ \E hdr \in AuthorizationHeaders :
             \/ upload_csv(c, hdr, FALSE, <<>>)
             \/ \E mp \in UploadBodies(hdr) : upload_csv(c, hdr, TRUE, mp)
    \/ /\ handlers[c].kind = "upload_csv"
       /\ upload_csv_save(c) \/ load_config_save_default(c)

\* the steps of an upload: its arrival does not write and the teams it holds
\* stay as parsed; a step that answers an error does not write; a successful
\* save writes the configuration the upload holds, with those teams
UploadReplacesTeamsWholesale(c) ==
    /\ (handlers[c] = Idle /\ handlers'[c].kind = "upload_csv") => stored' = stored
    /\ (handlers[c].kind = "upload_csv" /\ handlers'[c].kind = "upload_csv") =>
          handlers'[c].teams = handlers[c].teams
    /\ (stored' # stored /\ response' # NoResponse /\ response'.status # 200) =>
          ~UploadStep(c)
    /\ (/\ handlers[c].kind = "upload_csv"
        /\ response' = Response(200)
        /\ upload_csv_save(c)) =>
          /\ stored' = handlers[c].config
          /\ stored'.teams = handlers[c].teams

\* a later step of an upload that answers an error
UploadErrorStep(c) ==
    /\ handlers[c].kind = "upload_csv"
    /\ response' # NoResponse
    /\ response'.status # 200
    /\ upload_csv_save(c) \/ load_config_save_default(c)

\* C16 (as stated): upload_csv is all-or-nothing: if it answers with any
\* error (401, 400, 500 for a failed load or save) the stored configuration
\* is unchanged, by that step and by the earlier steps of the request; the
\* stored teams are replaced, wholesale and by the rows of the first field
\* named "file", only after every row of that CSV has parsed.
C16_UploadAllOrNothing ==
    /\ [](/\ \A hdr \in AuthorizationHeaders, mp \in Multiparts :
                UploadParsesWholeFile(hdr, mp)
          /\ \A c \in Clients : HoldsParsedTeams(c))
    /\ [][\A c \in Clients :
             /\ UploadReplacesTeamsWholesale(c)
             /\ UploadErrorStep(c) => ~handlers[c].saved_default]_vars

\* C16 (amended): if upload_csv answers with any error, the step that
\* answers it leaves the stored configuration unchanged, and the request
\* has written nothing before it, except on Firestore when its load_config
\* found no document: the default configuration it saved then stays in the
\* store when the later save of the upload fails (500).  The stored teams
\* are replaced, wholesale and by the rows of the first field named "file",
\* only after every row of that CSV has parsed.
C16_UploadAllOrNothingButDefault ==
    /\ [](/\ \A hdr \in AuthorizationHeaders, mp \in Multiparts :
                UploadParsesWholeFile(hdr, mp)
          /\ \A c \in Clients : HoldsParsedTeams(c))
    /\ [][\A c \in Clients :
             /\ UploadReplacesTeamsWholesale(c)
             /\ (UploadErrorStep(c) /\ handlers[c].saved_default) =>
                   /\ backend = "firestore"
                   /\ handlers[c].pc = "save"
                   /\ handlers[c].config =
                         [ThermometerConfigDefault(handlers[c].config.last_updated)
                             EXCEPT !.teams = handlers[c].teams]]_vars

\* an upload has replaced the stored teams by the one row of its file
C16_Witness ==
    /\ stored # NoDocument
    /\ stored.teams = <<Team("Beta", F(25))>>
    /\ response.status = 200
    /\ \A c \in Clients : handlers[c] = Idle

-----------------------------------------------------------------------------
(* InMemoryStorage: load_config and save_config on the RwLock *)

\* the fields of ThermometerConfig, in the order the derived Clone copies them
Fields == <<"organization_name", "title", "goal", "teams", "last_updated">>

\* the tasks that call the storage, and how many save_config calls are made
Tasks == {"t1", "t2", "t3"}
MaxSaves == 2

\* the configurations handed to save_config; they differ in every field
SaveArguments ==
    { [ organization_name |-> "Shelter", title |-> "Spring Drive", goal |-> F(500),
        teams |-> <<Team("Alpha", F(5))>>, last_updated |-> 1 ],
      [ organization_name |-> "Rescue", title |-> "Autumn Drive", goal |-> F(750),
        teams |-> <<Team("Beta", F(25))>>, last_updated |-> 2 ] }

\* a clone of which no field has been copied yet
NoFields == [f \in {} |-> 0]

\* one field of a clone: dst gets the i-th field of src
CopyField(dst, src, i) ==
    [f \in (DOMAIN dst) \cup {Fields[i]} |-> IF f = Fields[i] THEN src[f] ELSE dst[f]]

\* tokio::sync::RwLock: a read guard is granted while no write guard is
\* held, a write guard while no guard at all is held.  (The order in which
\* waiting tasks are served is left open; tokio serves them in a fair
\* order, which is one of the orders allowed here.)
can_read_unguarded(lock) == TRUE

can_read(lock) == lock.writer = {}

can_write(lock) == lock.writer = {} /\ lock.readers = {}

\* a task that is not in a call.  started_at, read_at and done_at record how
\* many saves had completed when a load was called, got its guard and
\* returned
NoCallYet ==
    [op |-> "none", pc |-> "idle", arg |-> NoDocument, i |-> 1, result |-> NoFields,
     started_at |-> 0, read_at |-> 0, done_at |-> 0]

\* InMemoryStorage::new(): the lock holds the default configuration
MemoryInit ==
    /\ rwlock = [config |-> ThermometerConfigDefault(0), readers |-> {}, writer |-> {}]
    /\ tasks = [t \in Tasks |-> NoCallYet]
    /\ completed = <<>>
    /\ LayoutIdle
    /\ PngIdle
    /\ ServerIdle

\* the save_config calls made and not yet completed
SavesRunning == {t \in Tasks : tasks[t].op = "save_config" /\ tasks[t].pc # "returned"}

\* load_config is called: self.config.read() starts waiting
load_config_call(t) ==
    /\ tasks[t].pc \in {"idle", "returned"}
    /\ tasks' = [tasks EXCEPT ![t] = [NoCallYet EXCEPT !.op = "load_config",
                                                       !.pc = "waiting",
                                                       !.started_at = Len(completed)]]
    /\ UNCHANGED <<rwlock, completed>>
    /\ UNCHANGED <<layout_vars, png_vars, server_vars>>

\* self.config.read().await: the read guard is granted
load_config_read(t) ==
    /\ tasks[t].op = "load_config"
    /\ tasks[t].pc = "waiting"
    /\ can_read(rwlock)
    /\ rwlock' = [rwlock EXCEPT !.readers = @ \cup {t}]
    /\ tasks' = [tasks EXCEPT ![t].pc = "holding", ![t].read_at = Len(completed)]
    /\ UNCHANGED completed
    /\ UNCHANGED <<layout_vars, png_vars, server_vars>>

\* .clone(): the next field of the locked value is copied
load_config_clone(t) ==
    /\ tasks[t].op = "load_config"
    /\ tasks[t].pc = "holding"
    /\ tasks[t].i <= Len(Fields)
    /\ tasks' = [tasks EXCEPT ![t].result = CopyField(@, rwlock.config, tasks[t].i),
                              ![t].i = @ + 1]
    /\ UNCHANGED <<rwlock, completed>>
    /\ UNCHANGED <<layout_vars, png_vars, server_vars>>

\* the guard is dropped and Ok(clone) returned
load_config_return(t) ==
    /\ tasks[t].op = "load_config"
    /\ tasks[t].pc = "holding"
    /\ tasks[t].i > Len(Fields)
    /\ rwlock' = [rwlock EXCEPT !.readers = @ \ {t}]
    /\ tasks' = [tasks EXCEPT ![t].pc = "returned", ![t].done_at = Len(completed)]
    /\ UNCHANGED completed
    /\ UNCHANGED <<layout_vars, png_vars, server_vars>>

\* save_config(&cfg) is called: self.config.write() starts waiting
save_config_call(t, cfg) ==
    /\ tasks[t].pc \in {"idle", "returned"}
    /\ Len(completed) + Cardinality(SavesRunning) < MaxSaves
    /\ tasks' = [tasks EXCEPT ![t] = [NoCallYet EXCEPT !.op = "save_config",
                                                       !.pc = "waiting",
                                                       !.arg = cfg]]
    /\ UNCHANGED <<rwlock, completed>>
    /\ UNCHANGED <<layout_vars, png_vars, server_vars>>

\* self.config.write().await: the write guard is granted
save_config_write(t) ==
    /\ tasks[t].op = "save_config"
    /\ tasks[t].pc = "waiting"
    /\ can_write(rwlock)
    /\ rwlock' = [rwlock EXCEPT !.writer = {t}]
    /\ tasks' = [tasks EXCEPT ![t].pc = "holding"]
    /\ UNCHANGED completed
    /\ UNCHANGED <<layout_vars, png_vars, server_vars>>

\* *stored_config = config.clone(): the next field of the locked value is
\* overwritten
save_config_assign(t) ==
    /\ tasks[t].op = "save_config"
    /\ tasks[t].pc = "holding"
    /\ tasks[t].i <= Len(Fields)
    /\ rwlock' = [rwlock EXCEPT !.config = CopyField(@, tasks[t].arg, tasks[t].i)]
    /\ tasks' = [tasks EXCEPT ![t].i = @ + 1]
    /\ UNCHANGED completed
    /\ UNCHANGED <<layout_vars, png_vars, server_vars>>

\* the guard is dropped and Ok(()) returned: the save is complete
save_config_return(t) ==
    /\ tasks[t].op = "save_config"
    /\ tasks[t].pc = "holding"
    /\ tasks[t].i > Len(Fields)
    /\ rwlock' = [rwlock EXCEPT !.writer = {}]
    /\ tasks' = [tasks EXCEPT ![t].pc = "returned"]
    /\ completed' = Append(completed, tasks[t].arg)
    /\ UNCHANGED <<layout_vars, png_vars, server_vars>>

MemoryNext ==
    \/ \E t \in Tasks : load_config_call(t)
    \/ \E t \in Tasks : load_config_read(t)
    \/ \E t \in Tasks : load_config_clone(t)
    \/ \E t \in Tasks : load_config_return(t)
    \/ \E t \in Tasks, cfg \in SaveArguments : save_config_call(t, cfg)
    \/ \E t \in Tasks : save_config_write(t)
    \/ \E t \in Tasks : save_config_assign(t)
    \/ \E t \in Tasks : save_config_return(t)

SpecMemory == MemoryInit /\ [][MemoryNext]_vars

\* the configuration of the most recently completed save when n saves have
\* completed: the default configuration when none has
LatestSaved(n) == IF n = 0 THEN ThermometerConfigDefault(0) ELSE completed[n]

\* C17: with the in-memory store, under every interleaving of load_config
\* and save_config calls, a load returns, whole, the default configuration
\* when no save had completed, and otherwise the configuration of the save
\* that had completed last when the load read the store, never a mixture of
\* two configurations; a load called after a save completed, with no save
\* completing later, returns exactly the configuration of that save.
C17_LoadsReturnLatestSave ==
    \A t \in Tasks :
        (tasks[t].op = "load_config" /\ tasks[t].pc = "returned") =>
            /\ tasks[t].result = LatestSaved(tasks[t].read_at)
            /\ tasks[t].result \in {ThermometerConfigDefault(0)} \cup SaveArguments
            /\ tasks[t].started_at <= tasks[t].read_at
            /\ tasks[t].read_at <= tasks[t].done_at
            /\ tasks[t].done_at = tasks[t].started_at =>
                  tasks[t].result = LatestSaved(tasks[t].started_at)

\* two saves of different configurations have completed, the second while a
\* load was waiting for the lock, and the load has returned the second
C17_Witness ==
    \E t \in Tasks :
        /\ tasks[t].op = "load_config"
        /\ tasks[t].pc = "returned"
        /\ Len(completed) = 2
        /\ completed[1] # completed[2]
        /\ tasks[t].started_at = 1
        /\ tasks[t].read_at = 2
        /\ tasks[t].result = completed[2]

====
